---- MODULE Spec2Model ----
(***************************************************************************)
(* The two numerical notebooks of the course repository as state machines: *)
(*   codes/02-fft.py      DFT, IDFT, the recursive radix-2 FFT and the     *)
(*                        cells that use them (validation, frequency       *)
(*                        extraction, FFT multiplication);                 *)
(*   03-fd-poisson.py     assembly of the five-point system matrix and of  *)
(*                        the right-hand side.                             *)
(* Complex numbers are exact: elements of the cyclotomic field Q(zeta),    *)
(* zeta = exp(2*pi*i/RootOrder), so exp(-2*pi*i*k/N) is a power of zeta    *)
(* for every length N that divides RootOrder and no rounding takes place.  *)
(***************************************************************************)
EXTENDS Integers, Sequences, FiniteSets, TLC

VARIABLES pc, g, stack, ret, maxDepth

vars == <<pc, g, stack, ret, maxDepth>>

(***************************************************************************)
(* Bounds of the model.                                                    *)
(***************************************************************************)
\* signals have at most 2^MaxLog samples
MaxLog == 3
\* the two impulses of a test signal have amplitudes in -MaxVal..MaxVal
MaxVal == 1

(***************************************************************************)
(* Exact complex arithmetic (numpy's complex128 without the rounding).     *)
(* A number is [c |-> <<c_0, ..., c_(Deg-1)>>, d |-> den], the value       *)
(* (c_0 + c_1*zeta + ... + c_(Deg-1)*zeta^(Deg-1)) / den in lowest terms.  *)
(* RootOrder = 3*2^MaxLog, whose cyclotomic polynomial is                  *)
(* z^Deg - z^(Deg/2) + 1 with Deg = 2^MaxLog.                              *)
(***************************************************************************)
RECURSIVE Pow(_, _)
Pow(base, e) == IF e = 0 THEN 1 ELSE base * Pow(base, e - 1)

Deg == Pow(2, MaxLog)
Half == Deg \div 2
RootOrder == 3 * Deg

Abs(i) == IF i < 0 THEN -i ELSE i

Max(i, j) == IF i >= j THEN i ELSE j

RECURSIVE GCD(_, _)
GCD(m, n) == IF n = 0 THEN Abs(m) ELSE GCD(n, m % n)

RECURSIVE GCDSeq(_, _, _)
GCDSeq(s, i, acc) ==
    IF i > Len(s) \/ acc = 1 THEN acc ELSE GCDSeq(s, i + 1, GCD(acc, Abs(s[i])))

Complex(cs, den) ==
    IF den = 1 THEN [c |-> cs, d |-> 1]
    ELSE LET gcd == GCDSeq(cs, 1, den)
         IN  [c |-> [p \in 1..Deg |-> cs[p] \div gcd], d |-> den \div gcd]

FromInt(n) == [c |-> [p \in 1..Deg |-> IF p = 1 THEN n ELSE 0], d |-> 1]

CZero == FromInt(0)

CAdd(u, v) ==
    IF u.d = v.d
    THEN Complex([p \in 1..Deg |-> u.c[p] + v.c[p]], u.d)
    ELSE Complex([p \in 1..Deg |-> u.c[p] * v.d + v.c[p] * u.d], u.d * v.d)

CNeg(u) == [c |-> [p \in 1..Deg |-> -u.c[p]], d |-> u.d]

CSub(u, v) == CAdd(u, CNeg(v))

\* u * num / den for integers num, den > 0
CScale(u, num, den) ==
    IF num = 1 /\ den = 1 THEN u
    ELSE Complex([p \in 1..Deg |-> u.c[p] * num], u.d * den)

\* the coefficient of u that zeta^k moves to exponent m (0 when there is none)
Coef(u, k, m) ==
    LET j == (m - k) % RootOrder IN IF j < Deg THEN u.c[j + 1] ELSE 0

\* u * zeta^k, reduced with zeta^Deg = zeta^Half - 1 and zeta^(3*Half) = -1
MulRoot(u, k) ==
    [c |-> [q \in 1..Deg |->
              LET p == q - 1
              IN  Coef(u, k, p)
                  + (IF p >= Half THEN Coef(u, k, p + Half)
                                  ELSE -Coef(u, k, p + Deg))
                  - Coef(u, k, p + 3 * Half)
                  + (IF p >= Half THEN -Coef(u, k, p + 2 * Deg)
                                  ELSE Coef(u, k, p + 5 * Half))],
     d |-> u.d]

RECURSIVE MulFrom(_, _, _)
MulFrom(u, v, i) ==
    IF i > Deg THEN CZero
    ELSE IF u.c[i] = 0 THEN MulFrom(u, v, i + 1)
    ELSE CAdd(CScale(MulRoot(v, i - 1), u.c[i], u.d), MulFrom(u, v, i + 1))

\* the product of two complex numbers
CMul(u, v) == MulFrom(u, v, 1)

RECURSIVE ConjFrom(_, _)
ConjFrom(u, i) ==
    IF i > Deg THEN CZero
    ELSE IF u.c[i] = 0 THEN ConjFrom(u, i + 1)
    ELSE CAdd(CScale(MulRoot(FromInt(1), (RootOrder - (i - 1)) % RootOrder), u.c[i], u.d),
              ConjFrom(u, i + 1))

\* the complex conjugate: zeta^j becomes zeta^(-j)
Conj(u) == ConjFrom(u, 1)

\* z.real, a number of the real subfield
Real(u) == CScale(CAdd(u, Conj(u)), 1, 2)

\* u is a rational number
IsRational(u) == \A p \in 2..Deg : u.c[p] = 0

\* num / u for an integer num and a rational u > 0
DivideBy(num, u) == CScale(FromInt(num), u.d, u.c[1])

\* floor(n / d) for d > 0
FloorDiv(n, d) == IF n >= 0 THEN n \div d ELSE -((-n + d - 1) \div d)

\* np.round of the rational n / d: to the nearest integer, a half to the even one
RoundHalfEven(n, d) ==
    LET lo == FloorDiv(n, d)
        twice == 2 * (n - lo * d)
    IN  IF twice < d THEN lo
        ELSE IF twice > d THEN lo + 1
        ELSE IF lo % 2 = 0 THEN lo ELSE lo + 1

\* int(np.round(u)) of a real u; the arithmetic can round rational values only,
\* and NotANumber stands for the rounding of any other value
NotANumber == -1

Round(u) == IF IsRational(u) THEN RoundHalfEven(u.c[1], u.d) ELSE NotANumber

\* np.linspace(start, stop, num): num samples from start to stop, both included
Linspace(start, stop, num) ==
    [i \in 1..num |->
        IF i = 1 THEN start
        ELSE CAdd(start, CScale(CSub(stop, start), i - 1, num - 1))]

\* np.exp(2j*np.pi*num/den) for an integer num and a length den dividing RootOrder
ExpTwoPiI(num, den) == MulRoot(FromInt(1), (num * (RootOrder \div den)) % RootOrder)

\* np.asarray(x, dtype=complex) of a list of integers
AsComplex(xs) == [i \in 1..Len(xs) |-> FromInt(xs[i])]

\* np.dot of a row of a matrix with a vector, summed from column i on
RECURSIVE RowDot(_, _, _)
RowDot(row, v, i) ==
    IF i > Len(v) THEN CZero ELSE CAdd(CMul(v[i], row[i]), RowDot(row, v, i + 1))

\* np.dot(M, v) for a matrix M (a sequence of rows) and a vector v
Dot(M, v) == [k \in 1..Len(M) |-> RowDot(M[k], v, 1)]

\* np.multiply(u, v), elementwise
Multiply(u, v) == [i \in 1..Len(u) |-> CMul(u[i], v[i])]

(***************************************************************************)
(* 02-fft.py: DFT and IDFT as matrix-vector products.                      *)
(***************************************************************************)
\* M[k][n] = exp(-2*pi*i*k*n/N)
DFTMatrix(N) ==
    [k \in 1..N |-> [n \in 1..N |-> ExpTwoPiI(-((k - 1) * (n - 1)), N)]]

DFT(x) == Dot(DFTMatrix(Len(x)), x)

\* IDFTMatrix without the factor 1/N
IDFTMatrixUnscaled(N) ==
    [n \in 1..N |-> [k \in 1..N |-> ExpTwoPiI((k - 1) * (n - 1), N)]]

\* m[n][k] = 1/N * exp(2*pi*i*k*n/N)
IDFTMatrix(N) ==
    [n \in 1..N |-> [k \in 1..N |-> CScale(ExpTwoPiI((k - 1) * (n - 1), N), 1, N)]]

IDFT(X) == Dot(IDFTMatrix(Len(X)), X)

(***************************************************************************)
(* 02-fft.py: FFT, one frame of the call stack per active call.            *)
(***************************************************************************)
\* math.log2(N).is_integer()
IsPowerOfTwo(N) == \E e \in 0..N : Pow(2, e) = N

NoReturn == [set |-> FALSE, val |-> <<>>]

Frame(x) == [x |-> x, at |-> "enter", x_odd |-> <<>>, factor |-> <<>>, a |-> <<>>]

Top == stack[Len(stack)]

Pop == SubSeq(stack, 1, Len(stack) - 1)

ReplaceTop(f) == [stack EXCEPT ![Len(stack)] = f]

\* x_even over range(M-1)
x_evenShort(x, M) == [k \in 1..(M - 1) |-> CAdd(x[k], x[k + M])]

x_even(x, M) == [k \in 1..M |-> CAdd(x[k], x[k + M])]

x_odd(x, M) == [k \in 1..M |-> CSub(x[k], x[k + M])]

\* factor with the sign of the exponent flipped
factorConjugate(N, M) == [k \in 1..M |-> ExpTwoPiI(k - 1, N)]

factor(N, M) == [k \in 1..M |-> ExpTwoPiI(-(k - 1), N)]

\* result[::2] = a; result[1::2] = b
Interleave(a, b) ==
    [i \in 1..(Len(a) + Len(b)) |-> IF i % 2 = 1 THEN a[(i + 1) \div 2] ELSE b[i \div 2]]

\* FFT(arg) is called from the notebook: the first frame
Call(arg) ==
    /\ stack = <<>>
    /\ stack' = <<Frame(arg)>>
    /\ ret' = NoReturn
    /\ maxDepth' = 0

\* the newest call is at its first statement
AtEnter == stack # <<>> /\ Top.at = "enter"

\* the newest call waits for the call named by its position, which has returned
AtReturn(at) == stack # <<>> /\ Top.at = at /\ ret.set

\* assert math.log2(N).is_integer() fails: the exception unwinds every frame
FFTAssertFails ==
    /\ AtEnter
    /\ ~IsPowerOfTwo(Len(Top.x))
    /\ stack' = <<>>
    /\ pc' = "AssertionError"
    /\ ret' = NoReturn
    /\ UNCHANGED <<g, maxDepth>>

\* the assertion holds and N <= 1
AtBase == AtEnter /\ IsPowerOfTwo(Len(Top.x)) /\ Len(Top.x) <= 1

\* N <= 1: return [x[0]]
FFTBase ==
    /\ AtBase
    /\ ret' = [set |-> TRUE, val |-> <<Top.x[1]>>]
    /\ stack' = Pop
    /\ UNCHANGED <<pc, g, maxDepth>>

\* the assertion holds and N > 1
AtSplit == AtEnter /\ IsPowerOfTwo(Len(Top.x)) /\ Len(Top.x) > 1

\* N > 1: x_even, x_odd, factor, then the call a = FFT(x_even)
FFTSplit ==
    /\ AtSplit
    /\ LET N == Len(Top.x)
           M == N \div 2
           caller == [Top EXCEPT !.at = "a",
                                 !.x_odd = x_odd(Top.x, M),
                                 !.factor = factor(N, M)]
       IN  /\ stack' = Append(ReplaceTop(caller), Frame(x_even(Top.x, M)))
           /\ maxDepth' = Max(maxDepth, Len(stack))
    /\ ret' = NoReturn
    /\ UNCHANGED <<pc, g>>

\* a has returned: the call b = FFT(np.multiply(factor, x_odd))
FFTCallB ==
    /\ AtReturn("a")
    /\ LET caller == [Top EXCEPT !.at = "b", !.a = ret.val]
       IN  /\ stack' = Append(ReplaceTop(caller), Frame(Multiply(Top.factor, Top.x_odd)))
           /\ maxDepth' = Max(maxDepth, Len(stack))
    /\ ret' = NoReturn
    /\ UNCHANGED <<pc, g>>

\* b has returned: interleave a and b and return the result
FFTCombine ==
    /\ AtReturn("b")
    /\ ret' = [set |-> TRUE, val |-> Interleave(Top.a, ret.val)]
    /\ stack' = Pop
    /\ UNCHANGED <<pc, g, maxDepth>>

\* the call FFT(arg) of the notebook has returned
Returned == stack = <<>> /\ ret.set

(***************************************************************************)
(* 02-fft.py: the validation cells (lines 111-118 and 153-155).            *)
(***************************************************************************)
\* the lengths the arithmetic covers: the divisors of RootOrder up to 2^MaxLog
Lengths == {n \in 1..Deg : RootOrder % n = 0}

\* a signal of n samples: an impulse of amplitude w at sample 0 and one of
\* amplitude v at sample i - 1 (they add up when i = 1)
TwoImpulses(n, w, i, v) ==
    [m \in 1..n |-> (IF m = 1 THEN w ELSE 0) + (IF m = i THEN v ELSE 0)]

\* the inputs of the validation cells, with the list of line 111
Signals ==
    {TwoImpulses(t[1], t[2], t[3], t[4]) :
        t \in {u \in Lengths \X (-MaxVal..MaxVal) \X (1..Deg) \X (-MaxVal..MaxVal) :
                 u[3] <= u[1]}}
    \cup {<<2, 0, 2, 0>>}

InitValidate ==
    /\ pc = "roundtrip"
    /\ g \in {[x |-> s, xr |-> <<>>, xi |-> <<>>, y |-> <<>>, X |-> <<>>] : s \in Signals}
    /\ stack = <<>>
    /\ ret = NoReturn
    /\ maxDepth = 0

\* IDFT(DFT(x)) of line 114
ValidateRoundTrip ==
    /\ pc = "roundtrip"
    /\ g' = [g EXCEPT !.xr = IDFT(DFT(AsComplex(g.x)))]
    /\ pc' = "idft"
    /\ UNCHANGED <<stack, ret, maxDepth>>

\* IDFT(x) of lines 112 and 116
ValidateIDFT ==
    /\ pc = "idft"
    /\ g' = [g EXCEPT !.xi = IDFT(AsComplex(g.x))]
    /\ pc' = "fft"
    /\ UNCHANGED <<stack, ret, maxDepth>>

\* FFT(x) of line 154 is called
ValidateCallFFT ==
    /\ pc = "fft"
    /\ Call(AsComplex(g.x))
    /\ pc' = "in_fft"
    /\ UNCHANGED g

\* FFT(x) has returned; DFT(x) of line 154
ValidateFFT ==
    /\ pc = "in_fft"
    /\ Returned
    /\ g' = [g EXCEPT !.y = ret.val, !.X = DFT(AsComplex(g.x))]
    /\ pc' = "done"
    /\ UNCHANGED <<stack, ret, maxDepth>>

NextValidate ==
    \/ ValidateRoundTrip
    \/ ValidateIDFT
    \/ ValidateCallFFT
    \/ FFTAssertFails
    \/ FFTBase
    \/ FFTSplit
    \/ FFTCallB
    \/ FFTCombine
    \/ ValidateFFT

SpecValidate == InitValidate /\ [][NextValidate]_vars

Log2(N) == CHOOSE e \in 0..N : Pow(2, e) = N

\* C1: for an input x whose length is a power of two, FFT(x) equals DFT(x)
\* elementwise: when the cell of line 154 has run both, the two results are
\* the same sequence of complex numbers.
C1_FFTEqualsDFT ==
    pc = "done" => /\ Len(g.y) = Len(g.X)
                   /\ \A k \in 1..Len(g.x) : g.y[k] = g.X[k]

C1_Witness == pc = "done" /\ Len(g.x) = Deg /\ g.x[1] # 0 /\ g.x[4] # 0

\* C2: IDFT inverts DFT: IDFT(DFT(x)) = x elementwise for every input
\* length, and IDFT([2,0,2,0]) = [1,0,1,0].
C2_IDFTInvertsDFT ==
    /\ pc # "roundtrip" =>
          /\ Len(g.xr) = Len(g.x)
          /\ \A n \in 1..Len(g.x) : g.xr[n] = FromInt(g.x[n])
    /\ (pc \notin {"roundtrip", "idft"} /\ g.x = <<2, 0, 2, 0>>) =>
          g.xi = AsComplex(<<1, 0, 1, 0>>)

C2_Witness == pc = "fft" /\ g.x = <<2, 0, 2, 0>>

C2_WitnessOddLength == pc = "fft" /\ Len(g.x) = 3 /\ g.x[2] # 0

\* the steps a call in this frame still takes, its own callees' included
FrameRank(f) ==
    IF f.at = "enter" THEN 4 * Len(f.x) - 3
    ELSE IF f.at = "a" THEN 2 * Len(f.x) - 1
    ELSE 1

RECURSIVE RankFrom(_)
RankFrom(i) == IF i > Len(stack) THEN 0 ELSE FrameRank(stack[i]) + RankFrom(i + 1)

Rank == RankFrom(1)

\* C9: for an input of length N = 2^m, m >= 1: every call of the recursion
\* gets an input whose length is a power of two and the assertion never
\* fails; the recursion terminates (while FFT runs some step of it can be
\* taken, and every step lowers the number of steps left, Rank); the deepest
\* call is m levels below the first one; and the result has N entries.
C9_Recursion ==
    /\ []((IsPowerOfTwo(Len(g.x)) /\ Len(g.x) >= 2) =>
            /\ \A i \in 1..Len(stack) : IsPowerOfTwo(Len(stack[i].x))
            /\ pc # "AssertionError"
            /\ maxDepth <= Log2(Len(g.x))
            /\ pc = "in_fft" =>
                  AtBase \/ AtSplit \/ AtReturn("a") \/ AtReturn("b") \/ Returned
            /\ pc = "done" => /\ maxDepth = Log2(Len(g.x))
                              /\ Len(g.y) = Len(g.x))
    /\ [][(IsPowerOfTwo(Len(g.x)) /\ Len(g.x) >= 2 /\ pc = "in_fft" /\ pc' = "in_fft")
            => Rank' < Rank]_vars

C9_Witness == pc = "done" /\ Len(g.x) = Deg /\ maxDepth = MaxLog

(***************************************************************************)
(* 02-fft.py: the FFT multiplication cell (lines 211-221).                 *)
(***************************************************************************)
\* the operands are the multiples of OperandStride below 10^NumDigits
OperandStride == 907
\* a and b hold NumDigits digits each, padded with zeros to PadLength entries
NumDigits == 4
PadLength == 8

\* the list of a number: its decimal digits, lowest first, padded with zeros
DigitList(n) == [i \in 1..PadLength |-> (n \div Pow(10, i - 1)) % 10]

Operands == {n \in 0..(Pow(10, NumDigits) - 1) : n % OperandStride = 0} \cup {1234, 5678}

\* the powers of ten, highest first
PowersDescending(n) == [i \in 1..n |-> Pow(10, n - i)]

\* powers = [10**i for i in range(len(a))]
Powers(n) == [i \in 1..n |-> Pow(10, i - 1)]

\* np.dot(c, powers), summed from entry i on
RECURSIVE DotPowers(_, _, _)
DotPowers(cs, powers, i) ==
    IF i > Len(cs) THEN CZero
    ELSE CAdd(CScale(cs[i], powers[i], 1), DotPowers(cs, powers, i + 1))

InitMul ==
    /\ pc = "af"
    /\ g \in {[a |-> DigitList(m), b |-> DigitList(n), af |-> <<>>, bf |-> <<>>,
               cf |-> <<>>, c |-> <<>>, powers |-> <<>>, cNumber |-> 0] :
                 m \in Operands, n \in Operands}
    /\ stack = <<>>
    /\ ret = NoReturn
    /\ maxDepth = 0

\* af = FFT(a) is called
MulCallA ==
    /\ pc = "af"
    /\ Call(AsComplex(g.a))
    /\ pc' = "in_af"
    /\ UNCHANGED g

\* af = FFT(a) has returned
MulReturnA ==
    /\ pc = "in_af"
    /\ Returned
    /\ g' = [g EXCEPT !.af = ret.val]
    /\ pc' = "bf"
    /\ UNCHANGED <<stack, ret, maxDepth>>

\* bf = FFT(b) is called
MulCallB ==
    /\ pc = "bf"
    /\ Call(AsComplex(g.b))
    /\ pc' = "in_bf"
    /\ UNCHANGED g

\* bf = FFT(b) has returned
MulReturnB ==
    /\ pc = "in_bf"
    /\ Returned
    /\ g' = [g EXCEPT !.bf = ret.val]
    /\ pc' = "cf"
    /\ UNCHANGED <<stack, ret, maxDepth>>

\* cf = np.multiply(af, bf); c = IDFT(cf)
MulInverse ==
    /\ pc = "cf"
    /\ LET cf == Multiply(g.af, g.bf)
       IN  g' = [g EXCEPT !.cf = cf, !.c = IDFT(cf)]
    /\ pc' = "cNumber"
    /\ UNCHANGED <<stack, ret, maxDepth>>

\* powers = ...; cNumber = int(np.round(np.dot(c, powers).real))
MulNumber ==
    /\ pc = "cNumber"
    /\ LET powers == Powers(Len(g.a))
       IN  g' = [g EXCEPT !.powers = powers,
                          !.cNumber = Round(Real(DotPowers(g.c, powers, 1)))]
    /\ pc' = "done"
    /\ UNCHANGED <<stack, ret, maxDepth>>

NextMul ==
    \/ MulCallA
    \/ MulReturnA
    \/ MulCallB
    \/ MulReturnB
    \/ MulInverse
    \/ MulNumber
    \/ FFTBase
    \/ FFTSplit
    \/ FFTCallB
    \/ FFTCombine

SpecMul == InitMul /\ [][NextMul]_vars

(***************************************************************************)
(* 02-fft.py: the frequency extraction cell (lines 185-203).               *)
(***************************************************************************)
\* T = 1.0 / 800.0
T == CScale(FromInt(1), 1, 800)

\* |z|^2, which the arithmetic has where it has no square root for np.abs(z)
AbsSquared(z) == CMul(z, Conj(z))

\* the points plt.plot(xs, ys) draws: xs[i] against ys[i]
PlotPoints(xs, ys) == [i \in 1..Len(xs) |-> [x |-> xs[i], y |-> ys[i]]]

\* 2.0/N * np.abs(yf[:N//2]), each entry squared
ScaledMagnitudesSquared(yf, N) ==
    [i \in 1..(N \div 2) |-> CScale(AbsSquared(yf[i]), 4, N * N)]

InitFreq ==
    /\ pc = "yf"
    /\ g \in {[N |-> Len(s), data |-> s, yf |-> <<>>, xf |-> <<>>, plot |-> <<>>] :
                 s \in {sig \in Signals : Len(sig) >= 2 /\ IsPowerOfTwo(Len(sig))}}
    /\ stack = <<>>
    /\ ret = NoReturn
    /\ maxDepth = 0

\* yf = FFT(data) is called
FreqCallFFT ==
    /\ pc = "yf"
    /\ Call(AsComplex(g.data))
    /\ pc' = "in_yf"
    /\ UNCHANGED g

\* yf = FFT(data) has returned; xf = np.linspace(0.0, 1.0/(2.0*T), N//2)
FreqAxis ==
    /\ pc = "in_yf"
    /\ Returned
    /\ g' = [g EXCEPT !.yf = ret.val,
                      !.xf = Linspace(CZero, DivideBy(1, CScale(T, 2, 1)), g.N \div 2)]
    /\ pc' = "plot"
    /\ UNCHANGED <<stack, ret, maxDepth>>

\* plt.plot(xf, 2.0/N * np.abs(yf[:N//2]))
FreqPlot ==
    /\ pc = "plot"
    /\ g' = [g EXCEPT !.plot = PlotPoints(g.xf, ScaledMagnitudesSquared(g.yf, g.N))]
    /\ pc' = "done"
    /\ UNCHANGED <<stack, ret, maxDepth>>

NextFreq ==
    \/ FreqCallFFT
    \/ FreqAxis
    \/ FreqPlot
    \/ FFTBase
    \/ FFTSplit
    \/ FFTCallB
    \/ FFTCombine

SpecFreq == InitFreq /\ [][NextFreq]_vars

(***************************************************************************)
(* 03-fd-poisson.py: the system matrix.  A matrix is a sequence of rows,   *)
(* entry (i, j) of the source is M[i + 1][j + 1].                          *)
(***************************************************************************)
\* the grids have 3..MaxGrid nodes per dimension (3: one interior node)
MaxGrid == 5

\* sp.sparse.diags(values, offsets, shape=(n, n)).toarray()
RECURSIVE DiagEntry(_, _, _, _)
DiagEntry(values, offsets, delta, k) ==
    IF k > Len(offsets) THEN 0
    ELSE (IF offsets[k] = delta THEN values[k] ELSE 0)
         + DiagEntry(values, offsets, delta, k + 1)

Diags(values, offsets, n) ==
    [i \in 1..n |-> [j \in 1..n |-> DiagEntry(values, offsets, j - i, 1)]]

\* np.identity(n)
Identity(n) == [i \in 1..n |-> [j \in 1..n |-> IF i = j THEN 1 ELSE 0]]

\* np.kron(P, Q): the block (i, j) of the result is P[i][j] * Q
Kron(P, Q) ==
    LET n == Len(Q)
    IN  [i \in 1..(Len(P) * n) |-> [j \in 1..(Len(P) * n) |->
            P[((i - 1) \div n) + 1][((j - 1) \div n) + 1] * Q[((i - 1) % n) + 1][((j - 1) % n) + 1]]]

MatAdd(P, Q) == [i \in 1..Len(P) |-> [j \in 1..Len(P) |-> P[i][j] + Q[i][j]]]

MatNeg(P) == [i \in 1..Len(P) |-> [j \in 1..Len(P) |-> -P[i][j]]]

\* setupSystemMatrix without the leading minus
setupSystemMatrixUnsigned(N) ==
    LET dxx == Diags(<<1, -2, 1>>, <<-1, 0, 1>>, N - 2)
        dyy == Diags(<<1, -2, 1>>, <<-1, 0, 1>>, N - 2)
        Ix == Identity(N - 2)
        Iy == Identity(N - 2)
    IN  MatAdd(Kron(dyy, Ix), Kron(Iy, dxx))

\* setupSystemMatrix as five plain diagonals at offsets -(N-2), -1, 0, 1, N-2
setupSystemMatrixBanded(N) ==
    Diags(<<-1, -1, 4, -1, -1>>, <<-(N - 2), -1, 0, 1, N - 2>>, (N - 2) * (N - 2))

setupSystemMatrix(N) ==
    LET dxx == Diags(<<1, -2, 1>>, <<-1, 0, 1>>, N - 2)
        dyy == Diags(<<1, -2, 1>>, <<-1, 0, 1>>, N - 2)
        Ix == Identity(N - 2)
        Iy == Identity(N - 2)
    IN  MatNeg(MatAdd(Kron(dyy, Ix), Kron(Iy, dxx)))

\* the vectors the quadratic form of A is taken at: v at entry i plus w at entry j
ProbeVectors(n) ==
    {[m \in 1..n |-> (IF m = t[1] THEN t[2] ELSE 0) + (IF m = t[3] THEN t[4] ELSE 0)] :
        t \in (1..n) \X (-MaxVal..MaxVal) \X (1..n) \X (-MaxVal..MaxVal)}

InitMatrix ==
    /\ pc = "A"
    /\ g \in {[N |-> t[1], v |-> t[2], A |-> <<>>] :
                 t \in {u \in (3..MaxGrid)
                               \X UNION {ProbeVectors((n - 2) * (n - 2)) : n \in 3..MaxGrid} :
                          Len(u[2]) = (u[1] - 2) * (u[1] - 2)}}
    /\ stack = <<>>
    /\ ret = NoReturn
    /\ maxDepth = 0

\* A = setupSystemMatrix(N)
SetupSystemMatrix ==
    /\ pc = "A"
    /\ g' = [g EXCEPT !.A = setupSystemMatrix(g.N)]
    /\ pc' = "done"
    /\ UNCHANGED <<stack, ret, maxDepth>>

NextMatrix == SetupSystemMatrix

SpecMatrix == InitMatrix /\ [][NextMatrix]_vars

(***************************************************************************)
(* 03-fd-poisson.py: the right-hand side.  A coordinate i*d, d = L/(N-1),  *)
(* is the fraction [num |-> i*L, den |-> N-1]; source, bot, right, top and *)
(* left are functions on these coordinates.                                *)
(***************************************************************************)
L == 1

\* xVals = [i*d for i in range(1,N-1)] with d = L/(N-1); yVals likewise
GridVals(N) == [i \in 1..(N - 2) |-> [num |-> i * L, den |-> N - 1]]

\* the indices start, start+step, ... below stop of an array of n entries
Slice(start, stop, step, n) ==
    LET end == IF stop < n THEN stop ELSE n
        count == IF end <= start THEN 0 ELSE (end - start + step - 1) \div step
    IN  [k \in 1..count |-> start + (k - 1) * step]

\* b[:(N-2)]
BotIndices(N) == Slice(0, N - 2, 1, (N - 2) * (N - 2))

\* the slice of evalRight taken from entry 0 on, as evalLeft's is
RightIndicesFromZero(N) == Slice(0, (N - 2) * (N - 2), N - 2, (N - 2) * (N - 2))

\* b[(N-3):(N-2)*(N-2):(N-2)]
RightIndices(N) == Slice(N - 3, (N - 2) * (N - 2), N - 2, (N - 2) * (N - 2))

\* b[(N-3)*(N-2):]
TopIndices(N) == Slice((N - 3) * (N - 2), (N - 2) * (N - 2), 1, (N - 2) * (N - 2))

\* b[0:(N-3)*(N-2)+1:(N-2)]
LeftIndices(N) == Slice(0, (N - 3) * (N - 2) + 1, N - 2, (N - 2) * (N - 2))

evalBot(bot, xVals) == [i \in 1..Len(xVals) |-> bot[xVals[i]]]

evalRight(right, yVals) == [i \in 1..Len(yVals) |-> right[yVals[i]]]

evalTop(top, xVals) == [i \in 1..Len(xVals) |-> top[xVals[i]]]

evalLeft(left, yVals) == [i \in 1..Len(yVals) |-> left[yVals[i]]]

\* the array [[source(xVals[i],yVals[j]) for j] for i], reshaped row by row
evalSource(source, xVals, yVals) ==
    [p \in 1..(Len(xVals) * Len(yVals)) |->
        LET i == (p - 1) \div Len(yVals)
            j == (p - 1) % Len(yVals)
        IN  source[<<xVals[i + 1], yVals[j + 1]>>]]

\* b + vals, entry by entry
VecAdd(b, vals) == [p \in 1..Len(b) |-> b[p] + vals[p]]

RECURSIVE SliceSum(_, _, _, _)
SliceSum(indices, vals, p, k) ==
    IF k > Len(indices) \/ k > Len(vals) THEN 0
    ELSE (IF indices[k] = p THEN vals[k] ELSE 0) + SliceSum(indices, vals, p, k + 1)

\* b[indices] = vals where b[indices] += vals is meant
SliceAssign(b, indices, vals) ==
    [p \in 1..Len(b) |->
        IF \E k \in 1..Len(indices) : indices[k] = p - 1
        THEN SliceSum(indices, vals, p - 1, 1) ELSE b[p]]

\* b[indices] += vals
SliceAdd(b, indices, vals) ==
    [p \in 1..Len(b) |-> b[p] + SliceSum(indices, vals, p - 1, 1)]

setupRHSVector(N, xVals, yVals, source, bot, right, top, left) ==
    LET b0 == [p \in 1..((N - 2) * (N - 2)) |-> 0]
        b1 == VecAdd(b0, evalSource(source, xVals, yVals))
        b2 == SliceAdd(b1, BotIndices(N), evalBot(bot, xVals))
        b3 == SliceAdd(b2, RightIndices(N), evalRight(right, yVals))
        b4 == SliceAdd(b3, TopIndices(N), evalTop(top, xVals))
        b5 == SliceAdd(b4, LeftIndices(N), evalLeft(left, yVals))
    IN  b5

\* the places a function of the cell can be given a value at
Slots(N) ==
    LET coords == {GridVals(N)[i] : i \in 1..(N - 2)}
    IN  ({"source"} \X coords \X coords) \cup ({"bot", "right", "top", "left"} \X coords)

\* the cell's data: the value v at slot s and the value w at slot t, 0 elsewhere
CellData(N, s, v, t, w) ==
    LET coords == {GridVals(N)[i] : i \in 1..(N - 2)}
        At(slot) == (IF slot = s THEN v ELSE 0) + (IF slot = t THEN w ELSE 0)
    IN  [N |-> N, xVals |-> GridVals(N), yVals |-> GridVals(N),
         source |-> [xy \in coords \X coords |-> At(<<"source", xy[1], xy[2]>>)],
         bot |-> [x \in coords |-> At(<<"bot", x>>)],
         right |-> [y \in coords |-> At(<<"right", y>>)],
         top |-> [x \in coords |-> At(<<"top", x>>)],
         left |-> [y \in coords |-> At(<<"left", y>>)],
         b |-> <<>>]

InitRHS ==
    /\ pc = "b"
    /\ g \in UNION {{CellData(N, s, v, t, w) :
                        s \in Slots(N), t \in Slots(N), v \in 0..MaxVal, w \in 0..MaxVal} :
                    N \in 3..MaxGrid}
    /\ stack = <<>>
    /\ ret = NoReturn
    /\ maxDepth = 0

\* b = setupRHSVector(source,bot,right,top,left)
SetupRHSVector ==
    /\ pc = "b"
    /\ g' = [g EXCEPT !.b = setupRHSVector(g.N, g.xVals, g.yVals,
                                           g.source, g.bot, g.right, g.top, g.left)]
    /\ pc' = "done"
    /\ UNCHANGED <<stack, ret, maxDepth>>

NextRHS == SetupRHSVector

SpecRHS == InitRHS /\ [][NextRHS]_vars

\* the integer whose decimal digits, lowest first, are ds
RECURSIVE IntegerOf(_, _)
IntegerOf(ds, i) == IF i > Len(ds) THEN 0 ELSE ds[i] * Pow(10, i - 1) + IntegerOf(ds, i + 1)

\* entry i (from 0) of the linear convolution of u and v: the sum of u[j]*v[i-j]
RECURSIVE ConvFrom(_, _, _, _)
ConvFrom(u, v, i, j) ==
    IF j > i THEN 0
    ELSE (IF j < Len(u) /\ i - j < Len(v) THEN u[j + 1] * v[i - j + 1] ELSE 0)
         + ConvFrom(u, v, i, j + 1)

LinearConvolution(u, v, i) == ConvFrom(u, v, i, 0)

\* C3: FFT multiplication recovers the exact integer product: for two lists of
\* at most NumDigits digits padded to PadLength entries, IDFT(FFT(a)*FFT(b))
\* is the linear convolution c of a and b (no entry of which falls beyond the
\* padded length), the sum of c[i]*10^i is the product of the two integers,
\* and so is cNumber; 1234 and 5678 give 7006652.
C3_FFTMultiplication ==
    pc = "done" =>
        LET product == IntegerOf(g.a, 1) * IntegerOf(g.b, 1)
        IN  /\ Len(g.c) = PadLength
            /\ \A i \in 1..PadLength :
                   g.c[i] = FromInt(LinearConvolution(g.a, g.b, i - 1))
            /\ \A i \in PadLength..(2 * PadLength - 2) :
                   LinearConvolution(g.a, g.b, i) = 0
            /\ DotPowers(g.c, g.powers, 1) = FromInt(product)
            /\ g.cNumber = product
            /\ (g.a = DigitList(1234) /\ g.b = DigitList(5678)) => g.cNumber = 7006652

C3_Witness ==
    /\ pc = "done"
    /\ g.a = <<4, 3, 2, 1, 0, 0, 0, 0>>
    /\ g.b = <<8, 7, 6, 5, 0, 0, 0, 0>>
    /\ g.cNumber = 7006652

\* C8: in the frequency extraction cell with N samples and sample spacing T,
\* exactly N/2 points are plotted and the k-th of them pairs the magnitude
\* 2/N*|FFT(data)[k]| (here its square) with the frequency k/(N*T).
C8_FrequencyAxis ==
    pc = "done" =>
        /\ Len(g.plot) = g.N \div 2
        /\ \A k \in 0..(g.N \div 2 - 1) :
               /\ g.plot[k + 1].y = CScale(AbsSquared(g.yf[k + 1]), 4, g.N * g.N)
               /\ g.plot[k + 1].x = DivideBy(k, CScale(T, g.N, 1))

RECURSIVE RowForm(_, _, _)
RowForm(row, v, q) ==
    IF q > Len(v) THEN 0
    ELSE (IF v[q] = 0 THEN 0 ELSE row[q] * v[q]) + RowForm(row, v, q + 1)

RECURSIVE FormFrom(_, _, _)
FormFrom(M, v, p) ==
    IF p > Len(v) THEN 0
    ELSE (IF v[p] = 0 THEN 0 ELSE v[p] * RowForm(M[p], v, 1)) + FormFrom(M, v, p + 1)

\* the quadratic form v^T M v
QuadraticForm(M, v) == FormFrom(M, v, 1)

RECURSIVE OffDiagonalSum(_, _, _)
OffDiagonalSum(row, p, q) ==
    IF q > Len(row) THEN 0
    ELSE (IF q = p THEN 0 ELSE Abs(row[q])) + OffDiagonalSum(row, p, q + 1)

\* C4, as the specification states it: the system matrix is negative-definite,
\* v^T A v < 0 for every nonzero vector v.
C4_NegativeDefinite ==
    (pc = "done" /\ \E m \in 1..Len(g.v) : g.v[m] # 0) => QuadraticForm(g.A, g.v) < 0

\* C4, amended: for every grid size N >= 3 the system matrix is symmetric and
\* positive-definite: v^T A v > 0 for every nonzero vector v. Every diagonal
\* entry is positive and at least the sum of the absolute values of the rest
\* of its row, so no eigenvalue is negative.
C4_PositiveDefinite ==
    pc = "done" =>
        /\ (\E m \in 1..Len(g.v) : g.v[m] # 0) => QuadraticForm(g.A, g.v) > 0
        /\ \A p \in 1..Len(g.A) :
               /\ g.A[p][p] > 0
               /\ g.A[p][p] >= OffDiagonalSum(g.A[p], p, 1)
               /\ \A q \in 1..Len(g.A) : g.A[p][q] = g.A[q][p]

C4_Witness ==
    /\ pc = "done"
    /\ g.N = MaxGrid
    /\ g.v[1] = 1
    /\ g.v[2] = 1
    /\ QuadraticForm(g.A, g.v) = 6

\* C5: setupSystemMatrix(N) is the five-point stencil matrix of size
\* (N-2)^2 x (N-2)^2: with p = r*(N-2)+c, A[p][p] = 4, A[p][q] = -1 exactly
\* when q is the neighbour of p in the same grid row or the same grid column,
\* and 0 otherwise; the last unknown of a grid row is not coupled to the
\* first unknown of the next row; and A is symmetric.
C5_FivePointStencil ==
    pc = "done" =>
        LET n == g.N - 2
        IN  /\ Len(g.A) = n * n
            /\ \A p \in 0..(n * n - 1) : Len(g.A[p + 1]) = n * n
            /\ \A p, q \in 0..(n * n - 1) :
                   LET r1 == p \div n
                       c1 == p % n
                       r2 == q \div n
                       c2 == q % n
                   IN  /\ g.A[p + 1][q + 1] =
                              IF p = q THEN 4
                              ELSE IF \/ r1 = r2 /\ Abs(c1 - c2) = 1
                                      \/ c1 = c2 /\ Abs(r1 - r2) = 1
                                   THEN -1
                                   ELSE 0
                       /\ g.A[p + 1][q + 1] = g.A[q + 1][p + 1]
            /\ \A r \in 0..(n - 2) :
                   n >= 2 => g.A[r * n + (n - 1) + 1][(r + 1) * n + 1] = 0

C5_Witness ==
    /\ pc = "done"
    /\ g.N = MaxGrid
    /\ g.A[1][1] = 4
    /\ g.A[1][2] = -1
    /\ g.A[g.N - 2][g.N - 1] = 0

\* the contribution of the four edges to the unknown in grid row r, column c
EdgeTerms(r, c) ==
    LET n == g.N - 2
    IN  (IF r = 0 THEN g.bot[g.xVals[c + 1]] ELSE 0)
        + (IF r = n - 1 THEN g.top[g.xVals[c + 1]] ELSE 0)
        + (IF c = 0 THEN g.left[g.yVals[r + 1]] ELSE 0)
        + (IF c = n - 1 THEN g.right[g.yVals[r + 1]] ELSE 0)

Entries(indices) == {indices[k] : k \in 1..Len(indices)}

\* C6: setupRHSVector adds the boundary values, and only at the entries next
\* to the edge: with p = r*(N-2)+c, b[p] is the source entry of p plus
\* bot(xVals[c]) iff r = 0, top(xVals[c]) iff r = N-3, left(yVals[r]) iff
\* c = 0 and right(yVals[r]) iff c = N-3; each edge contributes to exactly
\* N-2 entries, and an entry away from every edge holds the source alone.
C6_BoundaryContributions ==
    pc = "done" =>
        LET n == g.N - 2
            src == evalSource(g.source, g.xVals, g.yVals)
        IN  /\ Len(g.b) = n * n
            /\ \A p \in 0..(n * n - 1) :
                   /\ g.b[p + 1] = src[p + 1] + EdgeTerms(p \div n, p % n)
                   /\ (0 < p \div n /\ p \div n < n - 1 /\ 0 < p % n /\ p % n < n - 1)
                          => g.b[p + 1] = src[p + 1]
            /\ Cardinality(Entries(BotIndices(g.N))) = n
            /\ Cardinality(Entries(TopIndices(g.N))) = n
            /\ Cardinality(Entries(LeftIndices(g.N))) = n
            /\ Cardinality(Entries(RightIndices(g.N))) = n
            /\ Entries(BotIndices(g.N)) = {p \in 0..(n * n - 1) : p \div n = 0}
            /\ Entries(TopIndices(g.N)) = {p \in 0..(n * n - 1) : p \div n = n - 1}
            /\ Entries(LeftIndices(g.N)) = {p \in 0..(n * n - 1) : p % n = 0}
            /\ Entries(RightIndices(g.N)) = {p \in 0..(n * n - 1) : p % n = n - 1}

C6_Witness ==
    /\ pc = "done"
    /\ g.N = MaxGrid
    /\ g.bot[g.xVals[1]] = 1
    /\ g.left[g.yVals[1]] = 1
    /\ g.b[1] = 2

\* no entry takes both the bottom and the top values, or both the left and
\* the right ones, and each corner takes one of each pair
NoDoubleCount ==
    LET n == g.N - 2
        bottom == Entries(BotIndices(g.N))
        upper == Entries(TopIndices(g.N))
        leftmost == Entries(LeftIndices(g.N))
        rightmost == Entries(RightIndices(g.N))
    IN  /\ bottom \cap upper = {}
        /\ leftmost \cap rightmost = {}
        /\ \A p \in {0, n - 1, n * (n - 1), n * n - 1} :
               /\ (p \in bottom) # (p \in upper)
               /\ (p \in leftmost) # (p \in rightmost)

\* C7, as the specification states it: for every N >= 3 each corner unknown
\* takes one of the bottom/top values and one of the left/right values only,
\* so no entry of b takes both.
C7_NoDoubleCount == pc = "done" => NoDoubleCount

\* C7, amended: the same for every N >= 4. (For N = 3 the one unknown lies
\* next to all four edges and takes all four values.)
C7_NoDoubleCountFrom4 == (pc = "done" /\ g.N >= 4) => NoDoubleCount

C7_Witness ==
    /\ pc = "done"
    /\ g.N = 4
    /\ g.bot[g.xVals[1]] = 1
    /\ g.top[g.xVals[1]] = 1
    /\ g.b[1] = 1
    /\ g.b[3] = 1

\* C10: the source term lies at the index the boundary values and the system
\* matrix use for its grid point: b[j*(N-2)+i] is source(xVals[i], yVals[j])
\* plus the edge values of the unknown in grid row j, column i.
C10_SourcePlacement ==
    pc = "done" =>
        \A i, j \in 0..(g.N - 3) :
            g.b[j * (g.N - 2) + i + 1] =
                g.source[<<g.xVals[i + 1], g.yVals[j + 1]>>] + EdgeTerms(j, i)

====
